---- MODULE Spec2Model ----
(***************************************************************************)
(* A model of the paper-trading engine: the Account ledger                 *)
(* (src/account.py, duplicated in src/main.py) and the StockAPI quote and  *)
(* name resolver (src/stock_api.py, with its TW-only draft in src/main.py),*)
(* and the TradingApp window of src/main.py that drives them from a timer  *)
(* and from the user's clicks.                                             *)
(*                                                                         *)
(* Money is exact: an amount is w + f/Scale with 0 <= f < Scale, so that   *)
(* the fee 0.001425 = 57/40000 and the tax 0.003 = 120/40000 are exact.    *)
(* The code computes in binary floating point; the model is the exact      *)
(* arithmetic the code approximates.                                       *)
(***************************************************************************)
EXTENDS Integers, Sequences, FiniteSets, TLC

VARIABLES
    cash,           \* Account.cash
    holdings,       \* Account.holdings: stock_code -> shares
    trade_history,  \* Account.trade_history
    clock,          \* the number of ledger calls made so far (datetime.now())
    calls,          \* history variable: the last two ledger calls, each with
                    \* the ledger as it was when the call was made
    api,            \* history variable: the last StockAPI call, the provider
                    \* responses it consumed, and how it ended
    current_stock_code,  \* TradingApp.current_stock_code
    current_price_data,  \* TradingApp.current_price_data
    quoted_code,    \* history variable: the stock code current_price_data
                    \* was requested for
    stack,          \* the handlers of TradingApp that have begun and not
                    \* returned, the innermost last
    timeout_pending,\* the timer's interval has elapsed and its timeout
                    \* signal is not delivered yet
    today,          \* the calendar date
    val             \* history variable: what the step just taken requested
                    \* and computed, when it ran update_price to its end or
                    \* the refresh after an order

ledgerVars == <<cash, holdings, trade_history, clock, calls>>
appVars == <<current_stock_code, current_price_data, quoted_code, stack,
             timeout_pending, today, val>>
vars == <<cash, holdings, trade_history, clock, calls, api,
          current_stock_code, current_price_data, quoted_code, stack,
          timeout_pending, today, val>>

----------------------------------------------------------------------------
(* Symbols are strings of characters, kept as sequences so that isdigit()  *)
(* and upper() are computed from the characters.                           *)

S2330 == <<"2", "3", "3", "0">>     \* in STOCK_NAMES_TW
S1234 == <<"1", "2", "3", "4">>     \* all digits, in no table
AAPL  == <<"A", "A", "P", "L">>     \* in STOCK_NAMES_US
aapl  == <<"a", "a", "p", "l">>     \* in STOCK_NAMES_US once upper-cased
ZZ    == <<"Z", "Z">>               \* not all digits, in no table

\* search_stock and update_price pass no empty stock code
Symbols == {S2330, S1234, AAPL, aapl, ZZ}

\* the stock codes given to the TW-only draft of src/main.py
MainSymbols == {S2330, AAPL}

LedgerSymbols == {S2330, AAPL}

----------------------------------------------------------------------------
(* Exact money.                                                            *)

Scale  == 40000
FeeNum == 57      \* fee = 0.001425 = 57/40000
TaxNum == 120     \* tax = 0.003    = 120/40000

Norm(w, f) == [w |-> w + (f \div Scale), f |-> f % Scale]
Whole(n)   == [w |-> n, f |-> 0]
MAdd(a, b) == Norm(a.w + b.w, a.f + b.f)
MSub(a, b) == Norm(a.w - b.w, a.f - b.f)
MGeq(a, b) == a.w > b.w \/ (a.w = b.w /\ a.f >= b.f)
MGt(a, b)  == a.w > b.w \/ (a.w = b.w /\ a.f > b.f)

\* cost = price * qty * (1 + fee)
BuyCost(price, qty) == Norm(price * qty, price * qty * FeeNum)

SellRevenue_NoTax(price, qty) == Norm(price * qty, 0 - (price * qty * FeeNum))

\* revenue = price * qty * (1 - fee - tax)
SellRevenue(price, qty) == Norm(price * qty, 0 - (price * qty * (FeeNum + TaxNum)))

----------------------------------------------------------------------------
(* Bounds and inputs.  Quantities are what the order spin boxes deliver    *)
(* (1..10000, in board lots here); prices are quoted prices, 0 included    *)
(* because the intraday provider defaults a missing last price to '0'.     *)

MaxCalls == 3

InitialCashSet == {0, 1000000}
Prices == {0, 400, 500}
Qtys   == {1, 1000, 2000}

QuoteMaps == UNION {[S -> Prices \ {0}] : S \in SUBSET LedgerSymbols}

----------------------------------------------------------------------------
(* Account                                                                 *)

Held(h, stock_code) == IF stock_code \in DOMAIN h THEN h[stock_code] ELSE 0

Restrict(h, S) == [k \in S |-> h[k]]

Trade_Notional(now, type, stock_code, price, qty, amount) ==
    [time |-> now, type |-> type, stock_code |-> stock_code,
     price |-> price, qty |-> qty, amount |-> Whole(price * qty)]

\* an entry of Account.trade_history
Trade(now, type, stock_code, price, qty, amount) ==
    [time |-> now, type |-> type, stock_code |-> stock_code,
     price |-> price, qty |-> qty, amount |-> amount]

buy_NoFundsCheck(c, h, th, now, stock_code, price, qty) ==
    LET cost == BuyCost(price, qty)
    IN [ret |-> TRUE,
        cash |-> MSub(c, cost),
        holdings |-> [k \in DOMAIN h \cup {stock_code} |->
                         IF k = stock_code THEN Held(h, k) + qty ELSE h[k]],
        trade_history |->
            Append(th, Trade(now, "BUY", stock_code, price, qty, cost))]

buy_NotionalCheck(c, h, th, now, stock_code, price, qty) ==
    LET cost == BuyCost(price, qty)
    IN IF MGeq(c, Whole(price * qty))
         THEN [ret |-> TRUE,
               cash |-> MSub(c, cost),
               holdings |-> [k \in DOMAIN h \cup {stock_code} |->
                                IF k = stock_code THEN Held(h, k) + qty ELSE h[k]],
               trade_history |->
                   Append(th, Trade(now, "BUY", stock_code, price, qty, cost))]
         ELSE [ret |-> FALSE, cash |-> c, holdings |-> h, trade_history |-> th]

buy_Prepend(c, h, th, now, stock_code, price, qty) ==
    LET cost == BuyCost(price, qty)
    IN IF MGeq(c, cost)
         THEN [ret |-> TRUE,
               cash |-> MSub(c, cost),
               holdings |-> [k \in DOMAIN h \cup {stock_code} |->
                                IF k = stock_code THEN Held(h, k) + qty ELSE h[k]],
               trade_history |->
                   <<Trade(now, "BUY", stock_code, price, qty, cost)>> \o th]
         ELSE [ret |-> FALSE, cash |-> c, holdings |-> h, trade_history |-> th]

buy_Overwrite(c, h, th, now, stock_code, price, qty) ==
    LET cost == BuyCost(price, qty)
    IN IF MGeq(c, cost)
         THEN [ret |-> TRUE,
               cash |-> MSub(c, cost),
               holdings |-> [k \in DOMAIN h \cup {stock_code} |->
                                IF k = stock_code THEN qty ELSE h[k]],
               trade_history |->
                   Append(th, Trade(now, "BUY", stock_code, price, qty, cost))]
         ELSE [ret |-> FALSE, cash |-> c, holdings |-> h, trade_history |-> th]

\* Account.buy: the ledger after the call, and the value returned.
buy(c, h, th, now, stock_code, price, qty) ==
    LET cost == BuyCost(price, qty)
        h0   == IF stock_code \notin DOMAIN h
                  THEN [k \in DOMAIN h \cup {stock_code} |->
                            IF k = stock_code THEN 0 ELSE h[k]]
                  ELSE h
    IN IF MGeq(c, cost)
         THEN [ret |-> TRUE,
               cash |-> MSub(c, cost),
               holdings |-> [h0 EXCEPT ![stock_code] = @ + qty],
               trade_history |->
                   Append(th, Trade(now, "BUY", stock_code, price, qty, cost))]
         ELSE [ret |-> FALSE, cash |-> c, holdings |-> h, trade_history |-> th]

sell_NoQtyCheck(c, h, th, now, stock_code, price, qty) ==
    IF stock_code \in DOMAIN h
      THEN LET revenue == SellRevenue(price, qty)
               h1 == [h EXCEPT ![stock_code] = @ - qty]
           IN [ret |-> TRUE,
               cash |-> MAdd(c, revenue),
               holdings |-> IF h1[stock_code] = 0
                              THEN Restrict(h1, DOMAIN h1 \ {stock_code})
                              ELSE h1,
               trade_history |->
                   Append(th, Trade(now, "SELL", stock_code, price, qty, revenue))]
      ELSE [ret |-> FALSE, cash |-> c, holdings |-> h, trade_history |-> th]

sell_KeepZero(c, h, th, now, stock_code, price, qty) ==
    IF stock_code \in DOMAIN h /\ h[stock_code] >= qty
      THEN LET revenue == SellRevenue(price, qty)
           IN [ret |-> TRUE,
               cash |-> MAdd(c, revenue),
               holdings |-> [h EXCEPT ![stock_code] = @ - qty],
               trade_history |->
                   Append(th, Trade(now, "SELL", stock_code, price, qty, revenue))]
      ELSE [ret |-> FALSE, cash |-> c, holdings |-> h, trade_history |-> th]

\* Account.sell: the ledger after the call, and the value returned.
sell(c, h, th, now, stock_code, price, qty) ==
    IF stock_code \in DOMAIN h /\ h[stock_code] >= qty
      THEN LET revenue == SellRevenue(price, qty)
               h1 == [h EXCEPT ![stock_code] = @ - qty]
           IN [ret |-> TRUE,
               cash |-> MAdd(c, revenue),
               holdings |-> IF h1[stock_code] = 0
                              THEN Restrict(h1, DOMAIN h1 \ {stock_code})
                              ELSE h1,
               trade_history |->
                   Append(th, Trade(now, "SELL", stock_code, price, qty, revenue))]
      ELSE [ret |-> FALSE, cash |-> c, holdings |-> h, trade_history |-> th]

RECURSIVE SumHeld(_, _, _)

SumHeld_NoShares(h, stock_prices, todo) ==
    IF todo = {} THEN Whole(0)
    ELSE LET stock_code == CHOOSE k \in todo : TRUE
             rest == SumHeld(h, stock_prices, todo \ {stock_code})
         IN IF stock_code \in DOMAIN stock_prices
              THEN MAdd(rest, Whole(stock_prices[stock_code]))
              ELSE rest

\* Account.get_total_asset: the loop over holdings.items().
SumHeld(h, stock_prices, todo) ==
    IF todo = {} THEN Whole(0)
    ELSE LET stock_code == CHOOSE k \in todo : TRUE
             rest == SumHeld(h, stock_prices, todo \ {stock_code})
         IN IF stock_code \in DOMAIN stock_prices
              THEN MAdd(rest, Whole(stock_prices[stock_code] * h[stock_code]))
              ELSE rest

get_total_asset(c, h, stock_prices) == MAdd(c, SumHeld(h, stock_prices, DOMAIN h))

----------------------------------------------------------------------------
(* StockAPI: what a provider can answer.                                   *)
(*                                                                         *)
(* A text field of a payload is a decimal number (with or without          *)
(* thousands separators), the dash '-', the empty string, TWSE's 'X0.00'   *)
(* or some other text; a key can also be missing.                          *)

Num(n)  == [k |-> "num", v |-> n, commas |-> FALSE]
NumC(n) == [k |-> "num", v |-> n, commas |-> TRUE]
Dash    == [k |-> "dash", v |-> 0, commas |-> FALSE]
Empty   == [k |-> "empty", v |-> 0, commas |-> FALSE]
XZero   == [k |-> "x", v |-> 0, commas |-> FALSE]
Bad     == [k |-> "bad", v |-> 0, commas |-> FALSE]
Missing == [k |-> "missing", v |-> 0, commas |-> FALSE]

\* str.replace(',', '') and str.replace('X', '0')
StripCommas(t) == IF t.k = "num" THEN [t EXCEPT !.commas = FALSE] ELSE t
ReplaceX(t)    == IF t.k = "x" THEN Num(0) ELSE t

\* float(text) and int(text) succeed on a plain decimal number only
Parses(t) == t.k = "num" /\ ~t.commas

\* dict.get(key, default)
Get(t, default) == IF t.k = "missing" THEN default ELSE t

\* a name field: a string (a sequence of characters), or a missing key
Str(s)    == [k |-> "str", s |-> s]
NoStr     == [k |-> "missing", s |-> <<>>]

\* requests.get(...): a connection error, a timeout, or a response
NetError   == [net |-> "error", status |-> 0, body |-> [k |-> "none"]]
NetTimeout == [net |-> "timeout", status |-> 0, body |-> [k |-> "none"]]
Http(status, body) == [net |-> "ok", status |-> status, body |-> body]
Unused     == [net |-> "unused", status |-> 0, body |-> [k |-> "none"]]

NotJson  == [k |-> "not_json"]    \* response.json() raises
JsonNull == [k |-> "null"]        \* response.json() is None

\* STOCK_DAY: {'data': [row, ...]}; a row is a list of nine texts
RowA(volume, open, high, low, close, change) ==
    <<Bad, volume, Bad, open, high, low, close, change, Bad>>
ShortRow == <<Bad, Num(1000), Bad, Num(490)>>

RowsA ==
    {RowA(NumC(1000), Num(490), Num(510), Num(480), Num(500), Num(10)),
     RowA(NumC(1000), Num(0), Num(510), Num(480), NumC(1500), XZero),
     RowA(NumC(1000), Num(490), Num(510), Num(480), Num(500), Num(5)),
     RowA(NumC(1000), Num(490), Num(510), Num(480), Bad, Num(10)),
     RowA(NumC(1000), Num(490), Num(510), Num(480), Num(500), Bad),
     ShortRow}

BodyA(has_data, data) == [k |-> "obj", has_data |-> has_data, data |-> data]

RespA ==
    {NetError, NetTimeout, Http(500, NotJson), Http(200, NotJson),
     Http(200, JsonNull), Http(200, BodyA(FALSE, <<>>)),
     Http(200, BodyA(TRUE, <<>>))}
    \cup {Http(200, BodyA(TRUE, <<ShortRow, r>>)) : r \in RowsA}

\* getStockInfo.jsp: {'msgArray': [info, ...]}
InfoB(z, o, h, l, v, y, n) ==
    [z |-> z, o |-> o, h |-> h, l |-> l, v |-> v, y |-> y, n |-> n]

InfosB ==
    {InfoB(Num(505), Num(495), Num(510), Num(490), Num(1000), Num(500), Str(<<"N">>)),
     InfoB(Num(505), Dash, Dash, Dash, Dash, Dash, Str(<<>>)),
     InfoB(Num(505), Num(495), Num(510), Num(490), Num(1000), Num(0), NoStr),
     InfoB(Num(505), Missing, Missing, Missing, Missing, Missing, NoStr),
     InfoB(Missing, Num(495), Num(510), Num(490), Num(1000), Num(500), Str(<<"N">>)),
     InfoB(Dash, Num(495), Num(510), Num(490), Num(1000), Num(500), Str(<<"N">>)),
     InfoB(Empty, Num(495), Num(510), Num(490), Num(1000), Num(500), NoStr),
     InfoB(Bad, Num(495), Num(510), Num(490), Num(1000), Num(500), Str(<<>>)),
     InfoB(NumC(1505), Num(495), Num(510), Num(490), Num(1000), Num(500), NoStr),
     InfoB(Num(505), Empty, Num(510), Num(490), Num(1000), Num(500), NoStr)}

BodyB(has_msg, msgArray) ==
    [k |-> "obj", has_msg |-> has_msg, msgArray |-> msgArray]

RespB ==
    {NetError, NetTimeout, Http(404, NotJson), Http(200, NotJson),
     Http(200, JsonNull), Http(200, BodyB(FALSE, <<>>)),
     Http(200, BodyB(TRUE, <<>>))}
    \cup {Http(200, BodyB(TRUE, <<i>>)) : i \in InfosB}

\* Yahoo quote: {'quoteResponse': {'result': [info, ...]}}; the values are
\* JSON numbers (or, malformed, texts), the names JSON strings
InfoUS(price, prev, open, shortName, longName) ==
    [regularMarketPrice |-> price, regularMarketPreviousClose |-> prev,
     regularMarketOpen |-> open, regularMarketDayHigh |-> Missing,
     regularMarketDayLow |-> Missing, regularMarketVolume |-> Missing,
     shortName |-> shortName, longName |-> longName]

InfosUS ==
    {InfoUS(Num(190), Num(188), Num(189), Str(<<"S">>), Str(<<"L">>)),
     InfoUS(Num(190), Num(0), Missing, NoStr, Str(<<"L">>)),
     InfoUS(Missing, Num(188), Num(189), NoStr, NoStr),
     InfoUS(Num(190), Missing, Num(189), Str(<<>>), Str(<<>>)),
     InfoUS(Bad, Num(188), Num(189), Str(<<>>), NoStr),
     InfoUS(Num(190), Num(188), Bad, Str(<<"S">>), NoStr)}

BodyUS(has_qr, result) == [k |-> "obj", has_qr |-> has_qr, result |-> result]

RespUS ==
    {NetError, NetTimeout, Http(503, NotJson), Http(200, NotJson),
     Http(200, JsonNull), Http(200, BodyUS(FALSE, <<>>)),
     Http(200, BodyUS(TRUE, <<>>))}
    \cup {Http(200, BodyUS(TRUE, <<i>>)) : i \in InfosUS}

----------------------------------------------------------------------------
(* StockAPI: the code.  A block of statements ends by returning a value,   *)
(* by raising an exception, or by falling through to the next statement.   *)

None == [k |-> "none"]

Ret(v)   == [k |-> "ret", v |-> v, exc |-> "none"]
Raise(e) == [k |-> "raise", v |-> None, exc |-> e]
Fall     == [k |-> "fall", v |-> None, exc |-> "none"]

Catch_RequestsOnly(o) ==
    IF o.k = "raise" /\ o.exc \in {"ConnectionError", "Timeout"} THEN Fall ELSE o

\* try: ... except Exception as e: print(...)
Catch(o) == IF o.k = "raise" THEN Fall ELSE o

\* try: ... except Exception as e: print(...); return None
CatchReturnNone(o) == IF o.k = "raise" THEN Ret(None) ELSE o

Digits == {"0", "1", "2", "3", "4", "5", "6", "7", "8", "9"}

\* str.isdigit()
_is_tw_stock(stock_code) ==
    Len(stock_code) > 0 /\ \A i \in 1..Len(stock_code) : stock_code[i] \in Digits

UpperChar(c) ==
    IF c = "a" THEN "A" ELSE IF c = "p" THEN "P" ELSE IF c = "l" THEN "L" ELSE c

\* str.upper()
upper(stock_code) == [i \in 1..Len(stock_code) |-> UpperChar(stock_code[i])]

\* the entries of the static tables for the symbols above; the TW names
\* are Chinese in the source
STOCK_NAMES_TW == (S2330 :> <<"T", "S", "M", "C">>)
STOCK_NAMES_US == (AAPL :> <<"A", "p", "p", "l", "e">>)

Quote(price, change, change_percent, volume, high, low, open) ==
    [k |-> "quote", price |-> price, change |-> change,
     change_percent |-> change_percent, volume |-> volume,
     high |-> high, low |-> low, open |-> open]

\* (change / reference * 100) if reference > 0 else 0, as a fraction n/d
Percent(change, reference) ==
    IF reference > 0 THEN [n |-> change * 100, d |-> reference]
                     ELSE [n |-> 0, d |-> 1]

\* requests.get and response.json(), common to every provider
Fetch(resp) ==
    IF resp.net = "error" THEN Raise("ConnectionError")
    ELSE IF resp.net = "timeout" THEN Raise("Timeout")
    ELSE IF resp.status # 200 THEN Fall
    ELSE IF resp.body.k = "not_json" THEN Raise("JSONDecodeError")
    ELSE Ret(resp.body)

\* method 1 of _get_tw_realtime_price: STOCK_DAY, the body of the first try
MethodA(resp) ==
    LET got == Fetch(resp)
        data == got.v
    IN IF got.k # "ret" THEN got
       ELSE IF data.k = "null" THEN Raise("TypeError")
       ELSE IF ~data.has_data \/ Len(data.data) = 0 THEN Fall
       ELSE LET latest == data.data[Len(data.data)]
                F(i) == StripCommas(latest[i + 1])
            IN IF Len(latest) < 7 THEN Raise("IndexError")
               ELSE IF \E i \in {6, 3, 4, 5, 1} : ~Parses(F(i))
                      THEN Raise("ValueError")
               ELSE IF Len(latest) < 8 THEN Raise("IndexError")
               ELSE IF ~Parses(ReplaceX(F(7))) THEN Raise("ValueError")
               ELSE LET change == ReplaceX(F(7)).v
                    IN Ret(Quote(F(6).v, change, Percent(change, F(3).v),
                                 F(1).v, F(4).v, F(5).v, F(3).v))

\* method 2 of _get_tw_realtime_price: getStockInfo, the body of the second try
MethodB(resp) ==
    LET got == Fetch(resp)
        data == got.v
    IN IF got.k # "ret" THEN got
       ELSE IF data.k = "null" THEN Raise("TypeError")
       ELSE IF ~data.has_msg \/ Len(data.msgArray) = 0 THEN Fall
       ELSE LET info == data.msgArray[1]
                price_str  == Get(info.z, Num(0))
                open_str   == Get(info.o, Num(0))
                high_str   == Get(info.h, Num(0))
                low_str    == Get(info.l, Num(0))
                volume_str == Get(info.v, Num(0))
                change_str == Get(info.y, Num(0))
                Val(t, dflt) == IF t.k # "dash" THEN t.v ELSE dflt
            IN IF price_str.k \in {"empty", "dash"} THEN Fall
               ELSE IF ~Parses(price_str) THEN Raise("ValueError")
               ELSE IF \E t \in {open_str, high_str, low_str, volume_str, change_str} :
                          t.k # "dash" /\ ~Parses(t)
                      THEN Raise("ValueError")
               ELSE LET price == price_str.v
                        yesterday_close == Val(change_str, price)
                        change == price - yesterday_close
                    IN Ret(Quote(price, change, Percent(change, yesterday_close),
                                 Val(volume_str, 0), Val(high_str, price),
                                 Val(low_str, price), Val(open_str, price)))

\* what a call of the resolver did: the value returned, the providers
\* contacted in order, whether an exception left the call, and the
\* responses it consumed
Result(ret, contacted, raised, ra, rb, rus) ==
    [ret |-> ret, contacted |-> contacted, raised |-> raised,
     ra |-> ra, rb |-> rb, rus |-> rus]

_get_tw_realtime_price_BFirst(stock_code, ra, rb) ==
    LET b == Catch(MethodB(rb))
    IN IF b.k = "ret" THEN Result(b.v, <<"B">>, FALSE, Unused, rb, Unused)
       ELSE LET a == Catch(MethodA(ra))
            IN IF a.k = "ret"
                 THEN Result(a.v, <<"B", "A">>, FALSE, ra, rb, Unused)
               ELSE Result(None, <<"B", "A">>, FALSE, ra, rb, Unused)

\* StockAPI._get_tw_realtime_price
_get_tw_realtime_price(stock_code, ra, rb) ==
    LET a == Catch(MethodA(ra))
    IN IF a.k = "ret" THEN Result(a.v, <<"A">>, FALSE, ra, Unused, Unused)
       ELSE IF a.k = "raise" THEN Result(None, <<"A">>, TRUE, ra, Unused, Unused)
       ELSE LET b == Catch(MethodB(rb))
            IN IF b.k = "ret"
                 THEN Result(b.v, <<"A", "B">>, FALSE, ra, rb, Unused)
               ELSE IF b.k = "raise"
                 THEN Result(None, <<"A", "B">>, TRUE, ra, rb, Unused)
               ELSE Result(None, <<"A", "B">>, FALSE, ra, rb, Unused)

\* the body of the try of _get_us_realtime_price
MethodUS(resp) ==
    LET got == Fetch(resp)
        data == got.v
    IN IF got.k = "raise" THEN got
       ELSE IF got.k = "fall" THEN Ret(None)
       ELSE IF data.k = "null" THEN Raise("AttributeError")
       ELSE IF ~data.has_qr \/ Len(data.result) = 0 THEN Ret(None)
       ELSE LET info == data.result[1]
                price      == info.regularMarketPrice
                prev_close == info.regularMarketPreviousClose
                open_price == Get(info.regularMarketOpen, price)
                high       == Get(info.regularMarketDayHigh, price)
                low        == Get(info.regularMarketDayLow, price)
                volume     == Get(info.regularMarketVolume, Num(0))
            IN IF price.k = "missing" \/ prev_close.k = "missing" THEN Ret(None)
               ELSE IF ~Parses(price) \/ ~Parses(prev_close) THEN Raise("TypeError")
               ELSE IF \E t \in {volume, high, low, open_price} : ~Parses(t)
                      THEN Raise("ValueError")
               ELSE LET change == price.v - prev_close.v
                    IN Ret(Quote(price.v, change, Percent(change, prev_close.v),
                                 volume.v, high.v, low.v, open_price.v))

\* StockAPI._get_us_realtime_price
_get_us_realtime_price(stock_code, rus) ==
    LET o == CatchReturnNone(MethodUS(rus))
    IN IF o.k = "raise" THEN Result(None, <<"US">>, TRUE, Unused, Unused, rus)
       ELSE Result(o.v, <<"US">>, FALSE, Unused, Unused, rus)

\* StockAPI.get_realtime_price (src/stock_api.py)
get_realtime_price(stock_code, ra, rb, rus) ==
    IF _is_tw_stock(stock_code)
      THEN _get_tw_realtime_price(stock_code, ra, rb)
      ELSE _get_us_realtime_price(stock_code, rus)

\* StockAPI.get_realtime_price of src/main.py: the two TWSE methods, word
\* for word those of _get_tw_realtime_price, for every stock code
main_get_realtime_price(stock_code, ra, rb) ==
    LET a == Catch(MethodA(ra))
    IN IF a.k = "ret" THEN Result(a.v, <<"A">>, FALSE, ra, Unused, Unused)
       ELSE IF a.k = "raise" THEN Result(None, <<"A">>, TRUE, ra, Unused, Unused)
       ELSE LET b == Catch(MethodB(rb))
            IN IF b.k = "ret"
                 THEN Result(b.v, <<"A", "B">>, FALSE, ra, rb, Unused)
               ELSE IF b.k = "raise"
                 THEN Result(None, <<"A", "B">>, TRUE, ra, rb, Unused)
               ELSE Result(None, <<"A", "B">>, FALSE, ra, rb, Unused)

\* the name request of get_stock_name to getStockInfo: the body of its try
NameB(resp) ==
    LET got == Fetch(resp)
        data == got.v
    IN IF got.k # "ret" THEN got
       ELSE IF data.k = "null" THEN Raise("TypeError")
       ELSE IF ~data.has_msg \/ Len(data.msgArray) = 0 THEN Fall
       ELSE LET name == Get(data.msgArray[1].n, Str(<<>>))
            IN IF name.s # <<>> THEN Ret(name.s) ELSE Fall

\* the name request of get_stock_name to Yahoo: the body of its try
NameUS(resp) ==
    LET got == Fetch(resp)
        data == got.v
    IN IF got.k # "ret" THEN got
       ELSE IF data.k = "null" THEN Raise("AttributeError")
       ELSE IF ~data.has_qr \/ Len(data.result) = 0 THEN Fall
       ELSE LET short == data.result[1].shortName
                long  == data.result[1].longName
                name  == IF short.k = "str" /\ short.s # <<>> THEN short ELSE long
            IN IF name.k = "str" /\ name.s # <<>> THEN Ret(name.s) ELSE Fall

\* return name when the request gave one; return stock_code otherwise
Named(o, stock_code, contacted, ra, rb, rus) ==
    IF o.k = "ret" THEN Result(o.v, contacted, FALSE, ra, rb, rus)
    ELSE IF o.k = "raise" THEN Result(None, contacted, TRUE, ra, rb, rus)
    ELSE Result(stock_code, contacted, FALSE, ra, rb, rus)

get_stock_name_NoFallback(stock_code, rb, rus) ==
    IF _is_tw_stock(stock_code) /\ stock_code \in DOMAIN STOCK_NAMES_TW
      THEN Result(STOCK_NAMES_TW[stock_code], <<>>, FALSE, Unused, Unused, Unused)
    ELSE IF ~_is_tw_stock(stock_code) /\ upper(stock_code) \in DOMAIN STOCK_NAMES_US
      THEN Result(STOCK_NAMES_US[upper(stock_code)], <<>>, FALSE, Unused, Unused, Unused)
    ELSE IF _is_tw_stock(stock_code)
      THEN LET o == Catch(NameB(rb))
           IN Result(IF o.k = "ret" THEN o.v ELSE <<>>, <<"B">>, FALSE,
                     Unused, rb, Unused)
    ELSE LET o == Catch(NameUS(rus))
         IN Result(IF o.k = "ret" THEN o.v ELSE <<>>, <<"US">>, FALSE,
                   Unused, Unused, rus)

\* StockAPI.get_stock_name (src/stock_api.py)
get_stock_name(stock_code, rb, rus) ==
    IF _is_tw_stock(stock_code) /\ stock_code \in DOMAIN STOCK_NAMES_TW
      THEN Result(STOCK_NAMES_TW[stock_code], <<>>, FALSE, Unused, Unused, Unused)
    ELSE IF ~_is_tw_stock(stock_code) /\ upper(stock_code) \in DOMAIN STOCK_NAMES_US
      THEN Result(STOCK_NAMES_US[upper(stock_code)], <<>>, FALSE, Unused, Unused, Unused)
    ELSE IF _is_tw_stock(stock_code)
      THEN Named(Catch(NameB(rb)), stock_code, <<"B">>, Unused, rb, Unused)
    ELSE Named(Catch(NameUS(rus)), stock_code, <<"US">>, Unused, Unused, rus)

\* StockAPI.get_stock_name of src/main.py: the TW table, then getStockInfo
main_get_stock_name(stock_code, rb) ==
    IF stock_code \in DOMAIN STOCK_NAMES_TW
      THEN Result(STOCK_NAMES_TW[stock_code], <<>>, FALSE, Unused, Unused, Unused)
    ELSE Named(Catch(NameB(rb)), stock_code, <<"B">>, Unused, rb, Unused)

\* before any call of StockAPI
NoCall ==
    [fn |-> "none", impl |-> "none", stock_code |-> <<>>, ret |-> None,
     contacted |-> <<>>, raised |-> FALSE,
     ra |-> Unused, rb |-> Unused, rus |-> Unused]

----------------------------------------------------------------------------
(* The ledger's callers.                                                   *)

NoPrices == [k \in {} |-> 0]

Call(op, stock_code, price, qty, stock_prices, ret) ==
    [op |-> op, stock_code |-> stock_code, price |-> price, qty |-> qty,
     stock_prices |-> stock_prices, ret |-> ret,
     cash0 |-> cash, holdings0 |-> holdings, history0 |-> trade_history]

Remember(c) == IF Len(calls) < 2 THEN Append(calls, c) ELSE <<calls[2], c>>

\* what val holds after a step that ran neither
NoValuation ==
    [by |-> "none", date |-> 0, watched |-> <<>>, data |-> None,
     requests |-> [s \in LedgerSymbols |-> 0], held |-> {},
     valued |-> FALSE, total |-> Whole(0)]

\* no TradingApp is constructed
NoApp ==
    /\ current_stock_code = <<>>
    /\ current_price_data = None
    /\ quoted_code = <<>>
    /\ stack = <<>>
    /\ timeout_pending = FALSE
    /\ today = 1
    /\ val = NoValuation

Init ==
    /\ cash \in {Whole(n) : n \in InitialCashSet}
    /\ holdings = NoPrices
    /\ trade_history = <<>>
    /\ clock = 0
    /\ calls = <<>>
    /\ api = NoCall
    /\ NoApp

Buy(stock_code, price, qty) ==
    /\ clock < MaxCalls
    /\ LET r == buy(cash, holdings, trade_history, clock + 1, stock_code, price, qty)
       IN /\ cash' = r.cash
          /\ holdings' = r.holdings
          /\ trade_history' = r.trade_history
          /\ calls' = Remember(Call("buy", stock_code, price, qty, NoPrices, r.ret))
    /\ clock' = clock + 1
    /\ UNCHANGED <<api, appVars>>

Sell(stock_code, price, qty) ==
    /\ clock < MaxCalls
    /\ LET r == sell(cash, holdings, trade_history, clock + 1, stock_code, price, qty)
       IN /\ cash' = r.cash
          /\ holdings' = r.holdings
          /\ trade_history' = r.trade_history
          /\ calls' = Remember(Call("sell", stock_code, price, qty, NoPrices, r.ret))
    /\ clock' = clock + 1
    /\ UNCHANGED <<api, appVars>>

TotalAsset(stock_prices) ==
    /\ clock < MaxCalls
    /\ calls' = Remember(Call("total", <<>>, 0, 0, stock_prices,
                              get_total_asset(cash, holdings, stock_prices)))
    /\ clock' = clock + 1
    /\ UNCHANGED <<cash, holdings, trade_history, api, appVars>>

BuyAny   == \E s \in LedgerSymbols, p \in Prices, q \in Qtys : Buy(s, p, q)
SellAny  == \E s \in LedgerSymbols, p \in Prices, q \in Qtys : Sell(s, p, q)
TotalAny == \E sp \in QuoteMaps : TotalAsset(sp)

Next == BuyAny \/ SellAny \/ TotalAny

Spec == Init /\ [][Next]_vars

----------------------------------------------------------------------------
(* The resolver's callers: one call of StockAPI per step, against          *)
(* whatever the providers answer.                                          *)

ApiCall(fn, impl, stock_code, r) ==
    [fn |-> fn, impl |-> impl, stock_code |-> stock_code, ret |-> r.ret,
     contacted |-> r.contacted, raised |-> r.raised,
     ra |-> r.ra, rb |-> r.rb, rus |-> r.rus]

GetRealtimePrice(stock_code, ra, rb, rus) ==
    /\ api' = ApiCall("price", "stock_api", stock_code,
                      get_realtime_price(stock_code, ra, rb, rus))
    /\ UNCHANGED <<ledgerVars, appVars>>

MainGetRealtimePrice(stock_code, ra, rb) ==
    /\ api' = ApiCall("price", "main", stock_code,
                      main_get_realtime_price(stock_code, ra, rb))
    /\ UNCHANGED <<ledgerVars, appVars>>

GetStockName(stock_code, rb, rus) ==
    /\ api' = ApiCall("name", "stock_api", stock_code,
                      get_stock_name(stock_code, rb, rus))
    /\ UNCHANGED <<ledgerVars, appVars>>

MainGetStockName(stock_code, rb) ==
    /\ api' = ApiCall("name", "main", stock_code,
                      main_get_stock_name(stock_code, rb))
    /\ UNCHANGED <<ledgerVars, appVars>>

\* A provider's response is drawn when the call contacts the provider.
Contacts(r, provider) == \E i \in 1..Len(r.contacted) : r.contacted[i] = provider
Drawn(r, provider, responses) ==
    IF Contacts(r, provider) THEN responses ELSE {Unused}

PriceAny ==
    \E s \in Symbols :
      \E ra \in Drawn(get_realtime_price(s, Unused, Unused, Unused), "A", RespA),
         rus \in Drawn(get_realtime_price(s, Unused, Unused, Unused), "US", RespUS) :
        \E rb \in Drawn(get_realtime_price(s, ra, Unused, rus), "B", RespB) :
          GetRealtimePrice(s, ra, rb, rus)

MainPriceAny ==
    \E s \in MainSymbols, ra \in RespA :
        \E rb \in Drawn(main_get_realtime_price(s, ra, Unused), "B", RespB) :
          MainGetRealtimePrice(s, ra, rb)

NameAny ==
    \E s \in Symbols :
      \E rb \in Drawn(get_stock_name(s, Unused, Unused), "B", RespB),
         rus \in Drawn(get_stock_name(s, Unused, Unused), "US", RespUS) :
        GetStockName(s, rb, rus)

MainNameAny ==
    \E s \in Symbols :
      \E rb \in Drawn(main_get_stock_name(s, Unused), "B", RespB) :
        MainGetStockName(s, rb)

NextResolver == PriceAny \/ MainPriceAny \/ NameAny \/ MainNameAny

\* the ledger is the default account and is not used
InitResolver == Init /\ cash = Whole(1000000)

SpecResolver == InitResolver /\ [][NextResolver]_vars

----------------------------------------------------------------------------
(* TradingApp (src/main.py).  Its handlers run on the one GUI thread.  A   *)
(* handler begins when an event loop delivers its event; an event loop     *)
(* runs when no handler is executing (app.exec()) or when the innermost    *)
(* handler waits in a modal QMessageBox, whose exec() delivers the timer's *)
(* timeout but no input to the window behind the box.  update_price is     *)
(* taken in two steps: it begins, and waits in requests.get; then the      *)
(* fetch returns and the rest of the handler runs.                         *)

MaxOrders == 2
MaxDays   == 2

\* the order quantity: the value the spin boxes start with
AppQtys == {1000}

\* what the two TWSE endpoints answer to the window's requests
AppRespA ==
    {NetError,
     Http(200, BodyA(TRUE, <<RowA(NumC(1000), Num(390), Num(410), Num(380),
                                  Num(400), Num(10))>>))}
AppRespB ==
    {NetTimeout,
     Http(200, BodyB(TRUE, <<InfoB(Num(505), Num(495), Num(510), Num(490),
                                   Num(1000), Num(500), Str(<<"N">>))>>))}

\* what StockAPI.get_realtime_price of src/main.py returns to the window
Answers(stock_code) ==
    {main_get_realtime_price(stock_code, ra, rb).ret :
        ra \in AppRespA, rb \in AppRespB}

Frame(h, from, at, ok) == [h |-> h, from |-> from, at |-> at, ok |-> ok]

Push(f) == Append(stack, f)
Pop     == SubSeq(stack, 1, Len(stack) - 1)
Top     == stack[Len(stack)]

EventLoopRunning_Always == TRUE

\* app.exec(), or the exec() of the QMessageBox the innermost handler shows
EventLoopRunning == IF stack = <<>> THEN TRUE ELSE Top.at = "dialog"

\* a modal QMessageBox takes the input of the window behind it
InputAccepted == stack = <<>>

\* the number of calls of get_realtime_price per stock code, given the
\* sets of codes each part of a handler requested
Requests(first, second) ==
    [s \in LedgerSymbols |->
        (IF s \in first THEN 1 ELSE 0) + (IF s \in second THEN 1 ELSE 0)]

Valuation(by, date, watched, data, requests, held, valued, total) ==
    [by |-> by, date |-> date, watched |-> watched, data |-> data,
     requests |-> requests, held |-> held, valued |-> valued, total |-> total]

\* the stock codes update_account_display requests a price for
AskedByAccountDisplay(h, code, cpd) ==
    DOMAIN h \ (IF code # <<>> /\ cpd.k = "quote" THEN {code} ELSE {})

\* TradingApp.update_account_display; answers[s] is what get_realtime_price
\* returns for s
update_account_display(c, h, code, cpd, answers) ==
    LET known  == IF code # <<>> /\ cpd.k = "quote" THEN {code} ELSE {}
        asked  == DOMAIN h \ known
        priced == known \cup {s \in asked : answers[s].k = "quote"}
        stock_prices ==
            [s \in priced |-> IF s \in known THEN cpd.price ELSE answers[s].price]
    IN [asked |-> asked, stock_prices |-> stock_prices,
        total |-> get_total_asset(c, h, stock_prices)]

\* TradingApp.update_holdings_table: the stock codes it requests a price
\* for (the rows it fills are display only)
update_holdings_table(h, code, cpd) ==
    {s \in DOMAIN h : ~(s = code /\ cpd.k = "quote")}

\* TradingApp.update_price from line 435 on: data is what get_realtime_price
\* returned for the watched code; by tells who called ("init" for
\* __init__, "cycle" for the timer and for search_stock)
update_price(by, code, cpd, qc, c, h, date, data, answers) ==
    IF data.k = "quote"
      THEN LET d == update_account_display(c, h, code, data, answers)
           IN [current_price_data |-> data, quoted_code |-> code,
               val |-> Valuation(by, date, code, data,
                                 Requests({code}, d.asked), DOMAIN h,
                                 TRUE, d.total)]
      ELSE [current_price_data |-> cpd, quoted_code |-> qc,
            val |-> Valuation(by, date, code, data, Requests({code}, {}),
                              DOMAIN h, FALSE, Whole(0))]

\* the refresh after a successful order: update_account_display, then
\* update_holdings_table (and update_history_table, which requests nothing)
RefreshAfterOrder(code, cpd, c, h, date, answers) ==
    LET d == update_account_display(c, h, code, cpd, answers)
    IN Valuation("order", date, code, cpd,
                 Requests(d.asked, update_holdings_table(h, code, cpd)),
                 DOMAIN h, TRUE, d.total)

\* TradingApp.__init__: the default account, the default stock code, one
\* update_price, and the timer started
InitApp ==
    /\ cash = Whole(1000000)
    /\ holdings = NoPrices
    /\ trade_history = <<>>
    /\ clock = 0
    /\ calls = <<>>
    /\ api = NoCall
    /\ current_stock_code = S2330
    /\ \E data \in Answers(S2330) :
          LET u == update_price("init", S2330, None, <<>>, Whole(1000000),
                                NoPrices, 1, data, NoPrices)
          IN /\ current_price_data = u.current_price_data
             /\ quoted_code = u.quoted_code
             /\ val = u.val
    /\ stack = <<>>
    /\ timeout_pending = FALSE
    /\ today = 1

\* the timer's 5000 ms have elapsed
TimerElapses ==
    /\ ~timeout_pending
    /\ timeout_pending' = TRUE
    /\ val' = NoValuation
    /\ UNCHANGED <<ledgerVars, api, current_stock_code, current_price_data,
                   quoted_code, stack, today>>

\* timer.timeout is delivered: update_price begins
TimerTimeout ==
    /\ timeout_pending
    /\ EventLoopRunning
    /\ timeout_pending' = FALSE
    /\ stack' = IF current_stock_code = <<>> THEN stack
                ELSE Push(Frame("update_price", "timer", "request", FALSE))
    /\ val' = NoValuation
    /\ UNCHANGED <<ledgerVars, api, current_stock_code, current_price_data,
                   quoted_code, today>>

\* TradingApp.search_stock: the code typed, then update_price begins
search_stock(stock_code) ==
    /\ InputAccepted
    /\ stock_code # <<>>
    /\ current_stock_code' = stock_code
    /\ stack' = Push(Frame("update_price", "search", "request", FALSE))
    /\ val' = NoValuation
    /\ UNCHANGED <<ledgerVars, api, current_price_data, quoted_code,
                   timeout_pending, today>>

\* the request of update_price returns and the handler runs to its end
UpdatePriceReturns ==
    /\ stack # <<>>
    /\ Top.h = "update_price"
    /\ \E data \in Answers(current_stock_code) :
         \E answers \in [AskedByAccountDisplay(holdings, current_stock_code, data)
                            -> UNION {Answers(s) : s \in LedgerSymbols}] :
            LET u == update_price("cycle", current_stock_code, current_price_data,
                                  quoted_code, cash, holdings, today, data,
                                  answers)
            IN /\ current_price_data' = u.current_price_data
               /\ quoted_code' = u.quoted_code
               /\ val' = u.val
    /\ stack' = Pop
    /\ UNCHANGED <<ledgerVars, api, current_stock_code, timeout_pending, today>>

\* TradingApp.buy_stock up to its QMessageBox
buy_stock(qty) ==
    /\ InputAccepted
    /\ clock < MaxOrders
    /\ IF current_price_data.k # "quote"
         THEN /\ stack' = Push(Frame("buy_stock", "click", "dialog", FALSE))
              /\ UNCHANGED <<cash, holdings, trade_history, clock>>
         ELSE LET r == buy(cash, holdings, trade_history, clock + 1,
                           current_stock_code, current_price_data.price, qty)
              IN /\ cash' = r.cash
                 /\ holdings' = r.holdings
                 /\ trade_history' = r.trade_history
                 /\ clock' = clock + 1
                 /\ stack' = Push(Frame("buy_stock", "click", "dialog", r.ret))
    /\ val' = NoValuation
    /\ UNCHANGED <<calls, api, current_stock_code, current_price_data,
                   quoted_code, timeout_pending, today>>

\* TradingApp.sell_stock up to its QMessageBox
sell_stock(qty) ==
    /\ InputAccepted
    /\ clock < MaxOrders
    /\ IF current_price_data.k # "quote"
         THEN /\ stack' = Push(Frame("sell_stock", "click", "dialog", FALSE))
              /\ UNCHANGED <<cash, holdings, trade_history, clock>>
         ELSE LET r == sell(cash, holdings, trade_history, clock + 1,
                            current_stock_code, current_price_data.price, qty)
              IN /\ cash' = r.cash
                 /\ holdings' = r.holdings
                 /\ trade_history' = r.trade_history
                 /\ clock' = clock + 1
                 /\ stack' = Push(Frame("sell_stock", "click", "dialog", r.ret))
    /\ val' = NoValuation
    /\ UNCHANGED <<calls, api, current_stock_code, current_price_data,
                   quoted_code, timeout_pending, today>>

\* the QMessageBox of buy_stock or sell_stock is closed: after a successful
\* order the three displays are refreshed; the handler returns
DialogClosed ==
    /\ stack # <<>>
    /\ Top.at = "dialog"
    /\ IF Top.ok
         THEN \E answers \in [AskedByAccountDisplay(holdings, current_stock_code,
                                                    current_price_data)
                                 -> UNION {Answers(s) : s \in LedgerSymbols}] :
                 val' = RefreshAfterOrder(current_stock_code, current_price_data,
                                          cash, holdings, today, answers)
         ELSE val' = NoValuation
    /\ stack' = Pop
    /\ UNCHANGED <<ledgerVars, api, current_stock_code, current_price_data,
                   quoted_code, timeout_pending, today>>

\* the calendar date changes
Midnight ==
    /\ today < MaxDays
    /\ today' = today + 1
    /\ val' = NoValuation
    /\ UNCHANGED <<ledgerVars, api, current_stock_code, current_price_data,
                   quoted_code, stack, timeout_pending>>

SearchAny == \E s \in LedgerSymbols : search_stock(s)
BuyStockAny  == \E q \in AppQtys : buy_stock(q)
SellStockAny == \E q \in AppQtys : sell_stock(q)

NextApp ==
    \/ TimerElapses
    \/ TimerTimeout
    \/ SearchAny
    \/ UpdatePriceReturns
    \/ BuyStockAny
    \/ SellStockAny
    \/ DialogClosed
    \/ Midnight

SpecApp == InitApp /\ [][NextApp]_vars

\* the rows the program has appended to a summary store: no statement of
\* the source files opens, writes or appends to a store of any kind
SummaryStore == <<>>

----------------------------------------------------------------------------
(* Properties of the ledger.  calls[i] is a call with the ledger as it was *)
(* when the call was made; After(i) is the ledger when it returned.        *)

After(i) ==
    IF i < Len(calls)
      THEN [cash |-> calls[i + 1].cash0, holdings |-> calls[i + 1].holdings0,
            trade_history |-> calls[i + 1].history0]
      ELSE [cash |-> cash, holdings |-> holdings, trade_history |-> trade_history]

Untouched(i) ==
    /\ After(i).cash = calls[i].cash0
    /\ After(i).holdings = calls[i].holdings0
    /\ After(i).trade_history = calls[i].history0

IsPrefix(s, t) == Len(s) <= Len(t) /\ \A k \in 1..Len(s) : s[k] = t[k]

\* C1: a buy whose cost price*qty*1.001425 exceeds the cash fails (returns
\* False, buy's only failure: insufficient funds) and leaves cash, holdings
\* and the trade history exactly as they were.
C1_BuyRejectedWhenShort ==
    \A i \in 1..Len(calls) :
        (calls[i].op = "buy"
            /\ MGt(BuyCost(calls[i].price, calls[i].qty), calls[i].cash0))
        => (calls[i].ret = FALSE /\ Untouched(i))

C1_Witness ==
    \E i \in 1..Len(calls) :
        /\ calls[i].op = "buy"
        /\ MGt(BuyCost(calls[i].price, calls[i].qty), calls[i].cash0)
        /\ calls[i].cash0.w > 0
        /\ calls[i].holdings0 # NoPrices
        /\ calls[i].ret = FALSE

\* C2: a sell of more shares than are held of the symbol (none, when it is
\* not held) fails (returns False) and leaves cash, holdings and the trade
\* history exactly as they were.
C2_SellRejectedWhenShort ==
    \A i \in 1..Len(calls) :
        (calls[i].op = "sell"
            /\ calls[i].qty > Held(calls[i].holdings0, calls[i].stock_code))
        => (calls[i].ret = FALSE /\ Untouched(i))

C2_Witness ==
    \E i \in 1..Len(calls) :
        /\ calls[i].op = "sell"
        /\ Held(calls[i].holdings0, calls[i].stock_code) > 0
        /\ calls[i].qty > Held(calls[i].holdings0, calls[i].stock_code)
        /\ calls[i].ret = FALSE

\* C3: cash is never negative, whatever buys and sells were made.
C3_CashNonNegative == MGeq(cash, Whole(0))

\* a buy was refused for lack of funds after an earlier buy spent cash
C3_Witness ==
    /\ Len(trade_history) > 0
    /\ \E i \in 1..Len(calls) :
        /\ calls[i].op = "buy"
        /\ calls[i].ret = FALSE
        /\ calls[i].cash0.w > 0
        /\ MGt(Whole(1000000), calls[i].cash0)

\* C4: every key of holdings maps to a strictly positive count, and a sell
\* of exactly the held count removes the key.
C4_HoldingsPositive ==
    /\ \A k \in DOMAIN holdings : holdings[k] > 0
    /\ \A i \in 1..Len(calls) :
        (calls[i].op = "sell" /\ calls[i].ret = TRUE
            /\ calls[i].qty = Held(calls[i].holdings0, calls[i].stock_code))
        => calls[i].stock_code \notin DOMAIN After(i).holdings

C4_Witness ==
    \E i \in 1..Len(calls) :
        /\ calls[i].op = "sell"
        /\ calls[i].ret = TRUE
        /\ calls[i].qty = Held(calls[i].holdings0, calls[i].stock_code)
        /\ calls[i].stock_code \notin DOMAIN After(i).holdings
        /\ After(i).holdings # NoPrices

\* C5: the trade history is append-only: the history before a call is a
\* prefix of the history after it; a successful buy or sell appends exactly
\* one trade, its own, at the end; a failed buy or sell and a total-asset
\* call append nothing.
C5_HistoryAppendOnly ==
    \A i \in 1..Len(calls) :
        LET before == calls[i].history0
            after  == After(i).trade_history
        IN /\ IsPrefix(before, after)
           /\ IF calls[i].op \in {"buy", "sell"} /\ calls[i].ret = TRUE
                THEN /\ Len(after) = Len(before) + 1
                     /\ after[Len(after)].stock_code = calls[i].stock_code
                     /\ after[Len(after)].qty = calls[i].qty
                     /\ after[Len(after)].price = calls[i].price
                     /\ after[Len(after)].type =
                            (IF calls[i].op = "buy" THEN "BUY" ELSE "SELL")
                ELSE after = before

C5_Witness ==
    /\ Len(calls) = 2
    /\ Len(calls[1].history0) = 1
    /\ calls[1].op = "buy" /\ calls[1].ret = TRUE
    /\ calls[1].history0[1] # trade_history[2]
    /\ calls[2].op \in {"sell", "total"}
    /\ Len(trade_history) = 2

\* C6: a successful buy(s, p, q) followed at once by a successful
\* sell(s, p, q) leaves the held count of s as it was and the cash lower by
\* exactly p*q*0.00585; from 1,000,000 with p = 500 and q = 1000 the cash
\* is 499,287.5 after the buy and 997,075.0 after the sell, nothing held.
C6_RoundTrip ==
    (/\ Len(calls) = 2
     /\ calls[1].op = "buy" /\ calls[1].ret = TRUE
     /\ calls[2].op = "sell" /\ calls[2].ret = TRUE
     /\ calls[2].stock_code = calls[1].stock_code
     /\ calls[2].price = calls[1].price
     /\ calls[2].qty = calls[1].qty)
    => LET s == calls[1].stock_code
           p == calls[1].price
           q == calls[1].qty
       IN /\ Held(holdings, s) = Held(calls[1].holdings0, s)
          /\ cash = MSub(calls[1].cash0, Norm(0, p * q * 234))
          /\ (calls[1].cash0 = Whole(1000000) /\ calls[1].holdings0 = NoPrices
                 /\ p = 500 /\ q = 1000)
             => /\ calls[2].cash0 = [w |-> 499287, f |-> 20000]
                /\ calls[2].holdings0 = [k \in {s} |-> 1000]
                /\ cash = [w |-> 997075, f |-> 0]
                /\ holdings = NoPrices

C6_Witness ==
    /\ Len(calls) = 2
    /\ calls[1].op = "buy" /\ calls[1].ret = TRUE
    /\ calls[2].op = "sell" /\ calls[2].ret = TRUE
    /\ calls[2].stock_code = calls[1].stock_code
    /\ calls[1].cash0 = Whole(1000000) /\ calls[1].holdings0 = NoPrices
    /\ calls[1].price = 500 /\ calls[1].qty = 1000
    /\ calls[2].price = 500 /\ calls[2].qty = 1000
    /\ cash = [w |-> 997075, f |-> 0]

\* the sum of f over the finite set S
RECURSIVE SumOver(_, _, _)
SumOver(S, h, sp) ==
    IF S = {} THEN 0
    ELSE LET k == CHOOSE x \in S : TRUE
         IN h[k] * sp[k] + SumOver(S \ {k}, h, sp)

\* C7: totalAsset returns cash plus the sum of holdings[s]*quotes[s] over
\* exactly the held symbols present in the quote map (a held symbol absent
\* from the map adds 0, a quoted symbol not held adds nothing), and leaves
\* cash, holdings and the trade history unchanged.
C7_TotalAsset ==
    \A i \in 1..Len(calls) :
        calls[i].op = "total"
        => /\ calls[i].ret =
                MAdd(calls[i].cash0,
                     Whole(SumOver(DOMAIN calls[i].holdings0
                                       \cap DOMAIN calls[i].stock_prices,
                                   calls[i].holdings0, calls[i].stock_prices)))
           /\ Untouched(i)

\* two symbols held, one of them quoted and the other absent from the map
C7_Witness ==
    \E i \in 1..Len(calls) :
        /\ calls[i].op = "total"
        /\ \E a \in DOMAIN calls[i].holdings0, b \in DOMAIN calls[i].holdings0 :
              /\ a \in DOMAIN calls[i].stock_prices
              /\ b \notin DOMAIN calls[i].stock_prices
        /\ MGt(calls[i].ret, calls[i].cash0)

----------------------------------------------------------------------------
(* Properties of the resolver, stated on the call recorded in api and on   *)
(* the responses it consumed.                                              *)

AllDigits(stock_code) == \A i \in 1..Len(stock_code) : stock_code[i] \in Digits

Chars == Digits \cup {"A", "P", "L", "Z", "a", "p", "l", "e", "T", "S", "M", "C", "N"}

\* no usable response: a network error, a timeout, a status other than 200,
\* a body that is no JSON object
NoPayload(r) == r.net # "ok" \/ r.status # 200 \/ r.body.k # "obj"

\* Provider A fails: no payload, no or an empty 'data' array, or a last row
\* that is too short or holds a non-numeric field
FailsA(r) ==
    \/ NoPayload(r)
    \/ ~r.body.has_data
    \/ r.body.data = <<>>
    \/ LET row == r.body.data[Len(r.body.data)]
       IN \/ Len(row) < 8
          \/ \E i \in {2, 4, 5, 6, 7} : row[i].k # "num"
          \/ row[8].k \notin {"num", "x"}

\* Provider B fails: no payload, no or an empty 'msgArray', a last price
\* that is '-', empty or not a number, or another field that is neither a
\* number nor '-'.  (A key missing from the entry is read as '0' by the
\* code; that case is not counted here.)
FailsB(r) ==
    \/ NoPayload(r)
    \/ ~r.body.has_msg
    \/ r.body.msgArray = <<>>
    \/ LET info == r.body.msgArray[1]
       IN \/ info.z.k \in {"dash", "empty", "bad"}
          \/ info.z.k = "num" /\ info.z.commas
          \/ \E t \in {info.o, info.h, info.l, info.v, info.y} :
                t.k \in {"empty", "bad"} \/ (t.k = "num" /\ t.commas)

C9_ClassificationDecidesChain ==
    api.fn = "price"
    => IF AllDigits(api.stock_code)
         THEN api.contacted \in {<<"A">>, <<"A", "B">>}
         ELSE api.contacted = <<"US">>

\* the symbol is in the static table the implementation consults (the
\* table of foreign names is consulted with the symbol in upper case)
InStaticTable(impl, stock_code) ==
    IF impl = "main" THEN stock_code \in DOMAIN STOCK_NAMES_TW
    ELSE IF AllDigits(stock_code) THEN stock_code \in DOMAIN STOCK_NAMES_TW
    ELSE upper(stock_code) \in DOMAIN STOCK_NAMES_US

\* a provider's response carries a non-empty name
YieldsNameB(r) ==
    /\ ~NoPayload(r)
    /\ r.body.has_msg
    /\ r.body.msgArray # <<>>
    /\ r.body.msgArray[1].n.s # <<>>

YieldsNameUS(r) ==
    /\ ~NoPayload(r)
    /\ r.body.has_qr
    /\ r.body.result # <<>>
    /\ (r.body.result[1].shortName.s # <<>> \/ r.body.result[1].longName.s # <<>>)

\* C10: getStockName never fails: whatever the symbol and the provider
\* outcome it returns a string, and when the symbol is not in the static
\* table and no provider yields a non-empty name it returns the symbol
\* itself.
C10_NameNeverFails ==
    api.fn = "name"
    => /\ ~api.raised
       /\ api.ret \in Seq(Chars)
       /\ (/\ ~InStaticTable(api.impl, api.stock_code)
           /\ ~YieldsNameB(api.rb)
           /\ ~YieldsNameUS(api.rus))
          => api.ret = api.stock_code

C10_Witness ==
    /\ api.fn = "name"
    /\ api.impl = "stock_api"
    /\ ~InStaticTable(api.impl, api.stock_code)
    /\ api.contacted = <<"US">>
    /\ api.rus.net = "ok" /\ api.rus.status = 200 /\ api.rus.body.k = "obj"
    /\ ~YieldsNameUS(api.rus)
    /\ api.ret = api.stock_code
    /\ ~api.raised

\* a payload arrived and its shape deviates: a required key is missing, an
\* array is empty, a row is too short, a field is not numeric
DeviatesA(r) == ~NoPayload(r) /\ FailsA(r)

DeviatesB(r) ==
    /\ ~NoPayload(r)
    /\ (FailsB(r) \/ r.body.msgArray[1].z.k = "missing")

DeviatesUS(r) ==
    /\ ~NoPayload(r)
    /\ \/ ~r.body.has_qr
       \/ r.body.result = <<>>
       \/ LET info == r.body.result[1]
          IN \/ info.regularMarketPrice.k # "num"
             \/ info.regularMarketPreviousClose.k # "num"
             \/ info.regularMarketOpen.k \notin {"num", "missing"}

\* C14: a payload whose shape deviates (a required key such as the last
\* price of the intraday provider is missing, an array is empty, a field is
\* not numeric) is a soft failure of its provider: no exception escapes, the
\* provider yields no quote, and the resolver goes on to the next provider
\* or returns None (NotAvailable).
C14_ShapeDeviationSoftFails ==
    api.fn = "price"
    => /\ ~api.raised
       /\ (Contacts(api, "A") /\ DeviatesA(api.ra))
          => (Contacts(api, "B") /\ (DeviatesB(api.rb) => api.ret = None))
       /\ (Contacts(api, "B") /\ DeviatesB(api.rb)) => api.ret = None
       /\ (Contacts(api, "US") /\ DeviatesUS(api.rus)) => api.ret = None

\* the reference price of the path that answered, read from its payload:
\* the open price for STOCK_DAY, the previous close for the other two
ReferenceOf(a) ==
    IF a.contacted = <<"A">>
      THEN a.ra.body.data[Len(a.ra.body.data)][4].v
    ELSE IF a.contacted = <<"A", "B">>
      THEN LET y == a.rb.body.msgArray[1].y
           IN IF y.k = "dash" THEN a.ret.price ELSE y.v
    ELSE a.rus.body.result[1].regularMarketPreviousClose.v

\* C15: every quote getRealtimePrice returns has change = price - reference
\* and changePercent = change / reference * 100 when reference > 0 and 0
\* otherwise, the reference being the open price on the STOCK_DAY path and
\* the previous close on the intraday and foreign paths.
C15_ChangeFromReference ==
    (api.fn = "price" /\ api.ret.k = "quote")
    => LET reference == ReferenceOf(api)
           change    == api.ret.price - reference
       IN /\ api.ret.change = change
          /\ api.ret.change_percent =
                 (IF reference > 0 THEN [n |-> change * 100, d |-> reference]
                                   ELSE [n |-> 0, d |-> 1])

\* the providers getRealtimePrice contacts for the symbol, in order, when
\* each of them fails
PriceChain(impl, stock_code) ==
    IF impl = "main"
      THEN main_get_realtime_price(stock_code, NetError, NetError).contacted
      ELSE get_realtime_price(stock_code, NetError, NetError, NetError).contacted

\* C19: getStockName consults the static table first and, when the symbol
\* is in it, returns the table's name and contacts no provider; when the
\* symbol is absent it queries the provider chain getRealtimePrice uses for
\* the symbol, in the same order from its first provider.
C19_NameChain ==
    api.fn = "name"
    => IF InStaticTable(api.impl, api.stock_code)
         THEN /\ api.contacted = <<>>
              /\ api.ret = (IF api.impl = "main" \/ AllDigits(api.stock_code)
                              THEN STOCK_NAMES_TW[api.stock_code]
                              ELSE STOCK_NAMES_US[upper(api.stock_code)])
         ELSE /\ api.contacted # <<>>
              /\ IsPrefix(api.contacted, PriceChain(api.impl, api.stock_code))

\* C22: for an all-digit symbol Provider A is the first provider
\* contacted; when A yields a quote that quote is returned and Provider B
\* is not contacted in that call; B is contacted if and only if A failed.
C22_ChainOrder ==
    (api.fn = "price" /\ AllDigits(api.stock_code))
    => /\ api.contacted # <<>>
       /\ api.contacted[1] = "A"
       /\ ~FailsA(api.ra)
          => LET row == api.ra.body.data[Len(api.ra.body.data)]
             IN /\ api.contacted = <<"A">>
                /\ api.ret.k = "quote"
                /\ api.ret.price = row[7].v
                /\ api.ret.open = row[4].v
                /\ api.ret.change = row[8].v
       /\ Contacts(api, "B") <=> FailsA(api.ra)

C22_Witness ==
    /\ api.fn = "price"
    /\ api.impl = "stock_api"
    /\ AllDigits(api.stock_code)
    /\ ~FailsA(api.ra)
    /\ api.contacted = <<"A">>
    /\ api.ret.k = "quote"
    /\ api.ret.price = 500
    /\ api.rb = Unused

\* the foreign provider's response carries no result with both a price
\* and a previous close
NothingUS(r) ==
    \/ NoPayload(r)
    \/ ~r.body.has_qr
    \/ r.body.result = <<>>
    \/ r.body.result[1].regularMarketPrice.k = "missing"
    \/ r.body.result[1].regularMarketPreviousClose.k = "missing"

\* C23: for a symbol that is not all digits getRealtimePrice contacts one
\* provider, the foreign one, once; it raises nothing; it returns None
\* (NotAvailable) whenever the request fails or times out, the status is
\* not 200, the result list is empty, or price or previousClose is
\* lacking; it returns a quote only when both are present.
C23_ForeignSingleProvider ==
    (api.fn = "price" /\ ~AllDigits(api.stock_code))
    => /\ api.contacted = <<"US">>
       /\ ~api.raised
       /\ NothingUS(api.rus) => api.ret = None
       /\ api.ret.k = "quote" => ~NothingUS(api.rus)

----------------------------------------------------------------------------
(* Properties of the window: its refresh cycles (an update_price begun by  *)
(* the timer or by search_stock), its order handlers, and the valuations   *)
(* recorded in val.                                                        *)

Cycles == {i \in DOMAIN stack : stack[i].h = "update_price"}
Orders == {i \in DOMAIN stack : stack[i].h \in {"buy_stock", "sell_stock"}}

\* C12: at most one refresh cycle is in progress at any time: whenever the
\* timer's interval elapses and whenever the user looks a symbol up, no
\* update_price begins while an earlier one has not returned; a timeout
\* that falls due during a cycle starts no second cycle.
C12_OneCycleAtATime == Cardinality(Cycles) <= 1

\* the timer's interval elapsed while a cycle begun by a lookup waits for
\* its quote
C12_Witness ==
    /\ Cycles # {}
    /\ timeout_pending
    /\ stack[Len(stack)].from = "search"

\* C13: an order handler and a refresh cycle never overlap: no cycle is in
\* progress between the start and the end of buy_stock or sell_stock, and
\* no buy_stock or sell_stock runs between the start and the end of a
\* cycle.
C13_NoOverlap == Cycles = {} \/ Orders = {}

\* C16: within one valuation (a cycle, or the refresh after an order) at
\* most one quote is requested for each held symbol.
C16_OneRequestPerHeld ==
    val.by \in {"cycle", "order"}
    => \A s \in val.held : val.requests[s] <= 1

\* C17: every refresh cycle requests a quote for the watched symbol and
\* for every held symbol, and then computes and publishes the total-asset
\* valuation.
C17_CycleValues ==
    val.by = "cycle"
    => /\ val.requests[val.watched] >= 1
       /\ \A s \in val.held : val.requests[s] >= 1
       /\ val.valued

\* C18: for every calendar date on which a valuation occurred the summary
\* store holds exactly one DailySnapshot row.
C18_OneSnapshotPerDay ==
    val.valued
    => Cardinality({i \in DOMAIN SummaryStore :
                       SummaryStore[i].date = val.date}) = 1

\* C24: whenever buy_stock or sell_stock passes a price to Account.buy or
\* Account.sell, the quote the price is taken from was requested for the
\* symbol being traded, the watched one, and not for a symbol watched
\* before.
C24_PriceOfTradedSymbol ==
    [][clock' # clock => quoted_code = current_stock_code]_vars

----------------------------------------------------------------------------
(* Further properties of the ledger.                                       *)

SellUnknown(i) ==
    calls[i].op = "sell" /\ calls[i].stock_code \notin DOMAIN calls[i].holdings0

SellShort(i) ==
    /\ calls[i].op = "sell"
    /\ calls[i].stock_code \in DOMAIN calls[i].holdings0
    /\ calls[i].holdings0[calls[i].stock_code] < calls[i].qty

BuyShort(i) ==
    /\ calls[i].op = "buy"
    /\ MGt(BuyCost(calls[i].price, calls[i].qty), calls[i].cash0)

\* C11: a sell of a symbol that is not held changes nothing, and what it
\* returns differs from what a sell returns when the symbol is held in too
\* small a count, and from what a buy returns for lack of funds: the caller
\* can tell the three failures apart by the returned value.
C11_TypedFailures ==
    \A i \in 1..Len(calls) :
        SellUnknown(i)
        => /\ Untouched(i)
           /\ \A j \in 1..Len(calls) :
                 (SellShort(j) \/ BuyShort(j)) => calls[j].ret # calls[i].ret

\* C20: a buy with a price or a quantity that is not positive does not
\* succeed and leaves cash, holdings and the trade history as they were.
C20_BuyPreconditions ==
    \A i \in 1..Len(calls) :
        (calls[i].op = "buy" /\ (calls[i].price <= 0 \/ calls[i].qty <= 0))
        => (calls[i].ret = FALSE /\ Untouched(i))

\* the amount the fee (and, for a sell, the tax) makes of a notional n
AmountOf(type, n) ==
    IF type = "BUY" THEN Norm(n, n * FeeNum)
                    ELSE Norm(n, 0 - (n * (FeeNum + TaxNum)))

\* C21: the amount of every trade in the history is the cash the operation
\* that appended it moved: cash before - cash after = amount =
\* price*qty*1.001425 for a buy, cash after - cash before = amount =
\* price*qty*0.995575 for a sell; it is not the notional price*qty (from
\* which it differs whenever the notional is positive).
C21_AmountIsCashDelta ==
    /\ \A k \in 1..Len(trade_history) :
          LET t == trade_history[k]
          IN /\ t.amount = AmountOf(t.type, t.price * t.qty)
             /\ t.price * t.qty > 0 => t.amount # Whole(t.price * t.qty)
    /\ \A i \in 1..Len(calls) :
          (calls[i].op \in {"buy", "sell"} /\ calls[i].ret = TRUE)
          => LET after == After(i)
                 t     == after.trade_history[Len(after.trade_history)]
             IN IF calls[i].op = "buy"
                  THEN MSub(calls[i].cash0, after.cash) = t.amount
                  ELSE MSub(after.cash, calls[i].cash0) = t.amount

\* a buy and then a sell, both at a positive price, are in the history
C21_Witness ==
    /\ Len(calls) = 2
    /\ calls[1].op = "buy" /\ calls[1].ret = TRUE /\ calls[1].price > 0
    /\ calls[2].op = "sell" /\ calls[2].ret = TRUE /\ calls[2].price > 0
    /\ Len(trade_history) >= 2
    /\ MGt(trade_history[Len(trade_history) - 1].amount,
           trade_history[Len(trade_history)].amount)

\* the shares of s bought less the shares of s sold, over the history th
RECURSIVE NetQty(_, _)
NetQty(th, s) ==
    IF th = <<>> THEN 0
    ELSE LET t == th[Len(th)]
         IN NetQty(SubSeq(th, 1, Len(th) - 1), s)
              + (IF t.stock_code # s THEN 0
                 ELSE IF t.type = "BUY" THEN t.qty ELSE 0 - t.qty)

\* C25: for every symbol the held count (0 when the symbol is not a key of
\* holdings) is the sum of qty over its buys less the sum of qty over its
\* sells in the trade history, and a buy or sell of one symbol leaves the
\* held count of every other symbol as it was.
C25_HoldingsConserved ==
    /\ \A s \in LedgerSymbols : Held(holdings, s) = NetQty(trade_history, s)
    /\ \A i \in 1..Len(calls) :
          calls[i].op \in {"buy", "sell"}
          => \A s \in LedgerSymbols \ {calls[i].stock_code} :
                Held(After(i).holdings, s) = Held(calls[i].holdings0, s)

\* two symbols bought and a part of one of them sold: both are held
C25_Witness ==
    /\ DOMAIN holdings = LedgerSymbols
    /\ \E k \in 1..Len(trade_history) :
          /\ trade_history[k].type = "SELL"
          /\ holdings[trade_history[k].stock_code]
                = NetQty(trade_history, trade_history[k].stock_code)
          /\ holdings[trade_history[k].stock_code] < 1000

====
